---------------------------- MODULE Spec2Model ----------------------------
(***************************************************************************)
(* A model of neuralforecast/tsdataset.py: the ragged time-series store    *)
(* (TimeSeriesDataset), its padded window accessor (__getitem__), the      *)
(* long-table converter (from_df), the merge of future rows                *)
(* (update_dataset), structural equality (__eq__) and the batch collation  *)
(* of TimeSeriesLoader (_collate_fn).                                      *)
(*                                                                         *)
(* Python sequences are 0-based, TLA+ sequences 1-based: element k of a    *)
(* Python array is element k + 1 of the sequence that models it.  PyAt and *)
(* PySlice carry Python's indexing rules (negative indices, clamped slice  *)
(* bounds) across that shift.                                              *)
(***************************************************************************)
EXTENDS Integers, Sequences, FiniteSets, TLC

VARIABLES
    store,            \* the store the caller built (from_df or the constructor)
    origin,           \* how it was built: "from_df" or "init"
    src_df,           \* the table handed to from_df (empty for a direct construction)
    indices,          \* the group keys from_df returned for store
    ret,              \* the outcome of the last __getitem__ / _collate_fn / __eq__ call
    pc,               \* position of the update_dataset call: idle, loop, done, raised
    dataset,          \* update_dataset's parameter dataset
    future_df,        \* update_dataset's parameter future_df, as the caller sees it
    futr,             \* from_df's return value for future_df (line 143)
    new_temporal,     \* update_dataset's local new_temporal
    new_indptr,       \* update_dataset's local new_indptr
    new_max_size,     \* update_dataset's local new_max_size
    acum,             \* update_dataset's local acum
    i,                \* update_dataset's loop variable
    updated_dataset,  \* update_dataset's return value
    pre               \* the parameter dataset as it was when update_dataset was entered

vars == <<store, origin, src_df, indices, ret, pc, dataset, future_df, futr,
          new_temporal, new_indptr, new_max_size, acum, i, updated_dataset, pre>>

mergeVars == <<pc, dataset, future_df, futr, new_temporal, new_indptr,
               new_max_size, acum, i, updated_dataset, pre>>

---------------------------------------------------------------------------
(* Bounds of the model *)

\* most rows of a table handed to from_df by the caller
MaxRows == 3
\* most rows of a future table handed to update_dataset
MaxFutrRows == 2
\* timestamps of a caller's table are drawn from 1..MaxStamp
MaxStamp == 2
\* most records in one batch
MaxBatch == 2

\* group keys, and their sort order
Keys == {"A", "B"}
KeyRank(k) == IF k = "A" THEN 1 ELSE 2

\* 2^24: up to here every integer is a single-precision float
TwoTo24 == 16777216
\* feature values of the caller's tables: one exact in float32, one not
Vals == {1, TwoTo24 + 1}

\* Python's None, where the code tests "is None" on an array-valued field
None == <<>>
\* not-a-number: what the numeric conversion makes of a None cell.  A
\* reserved value; no table holds it as a datum.
NaN == 0 - 1

Max2(a, b) == IF a > b THEN a ELSE b
Min2(a, b) == IF a < b THEN a ELSE b
Abs(a) == IF a < 0 THEN 0 - a ELSE a

---------------------------------------------------------------------------
(* Python / numpy / torch primitives the code relies on *)

\* a Python slice bound a, applied to a sequence of length n
SliceBound(n, a) == IF a < 0 THEN Max2(a + n, 0) ELSE Min2(a, n)

\* s[a:b]
PySlice(s, a, b) ==
    LET lo == SliceBound(Len(s), a)
        hi == SliceBound(Len(s), b)
    IN  IF lo < hi THEN SubSeq(s, lo + 1, hi) ELSE <<>>

\* s[k] raises IndexError unless -len(s) <= k < len(s)
InBounds(n, k) == (0 - n) <= k /\ k < n

\* s[k] for an index in bounds
PyAt(s, k) == s[IF k < 0 THEN k + Len(s) + 1 ELSE k + 1]

\* astype(np.float32) / torch.tensor(..., dtype=torch.float) on one number:
\* integers up to 2^24 in magnitude are exact, beyond it (below 2^25) the
\* result is the nearest even integer, ties to the even mantissa.
AsFloat32(v) ==
    IF v = NaN THEN NaN
    ELSE IF Abs(v) <= TwoTo24 THEN v
    ELSE IF v % 2 = 0 THEN v
    ELSE IF (v + 1) % 4 = 0 THEN v + 1 ELSE v - 1

\* the same conversion on a 2-D array (a sequence of rows)
ToFloatArray(a) == [r \in 1..Len(a) |-> [c \in 1..Len(a[r]) |-> AsFloat32(a[r][c])]]

\* torch.zeros(size=(r, c))
Zeros(r, c) == [a \in 1..r |-> [b \in 1..c |-> 0]]

\* hasattr(obj, name) on an object modelled as a record of its attributes
HasAttr(obj, name) == name \in DOMAIN obj

RECURSIVE SumSeq(_)
SumSeq(s) == IF s = <<>> THEN 0 ELSE s[1] + SumSeq(Tail(s))

RECURSIVE MaxSeq(_)
\* max(s) of a non-empty sequence
MaxSeq(s) == IF Len(s) = 1 THEN s[1] ELSE Max2(s[1], MaxSeq(Tail(s)))

\* sizes.cumsum()
CumSum(s) == [k \in 1..Len(s) |-> SumSeq(SubSeq(s, 1, k))]

---------------------------------------------------------------------------
(* A table (DataFrame): its feature columns and its rows; a row carries    *)
(* the group key, the timestamp and one value per feature column.          *)

NoDf == [columns |-> <<>>, rows |-> <<>>]

\* the index order of two rows: (unique_id, ds) lexicographically
RowLeq(r, s) ==
    \/ KeyRank(r.unique_id) < KeyRank(s.unique_id)
    \/ r.unique_id = s.unique_id /\ r.ds <= s.ds

\* df.index.is_monotonic_increasing
IsMonotonicIncreasing(rows) ==
    \A k \in 1..(Len(rows) - 1) : RowLeq(rows[k], rows[k + 1])

RECURSIVE InsertRow(_, _)
InsertRow(sorted, r) ==
    IF sorted = <<>> THEN <<r>>
    ELSE IF RowLeq(sorted[Len(sorted)], r) THEN Append(sorted, r)
    ELSE Append(InsertRow(SubSeq(sorted, 1, Len(sorted) - 1), r), sorted[Len(sorted)])

RECURSIVE SortRows(_)
\* df.sort_index(): rows in index order, equal keys keeping their order
SortRows(rows) ==
    IF rows = <<>> THEN <<>>
    ELSE InsertRow(SortRows(SubSeq(rows, 1, Len(rows) - 1)), rows[Len(rows)])

\* static_df.sort_index(): the static table is indexed by unique_id alone
StaticLeq(r, s) == KeyRank(r.unique_id) <= KeyRank(s.unique_id)

RECURSIVE InsertStatic(_, _)
InsertStatic(sorted, r) ==
    IF sorted = <<>> THEN <<r>>
    ELSE IF StaticLeq(sorted[Len(sorted)], r) THEN Append(sorted, r)
    ELSE Append(InsertStatic(SubSeq(sorted, 1, Len(sorted) - 1), r), sorted[Len(sorted)])

RECURSIVE SortStatic(_)
SortStatic(rows) ==
    IF rows = <<>> THEN <<>>
    ELSE InsertStatic(SortStatic(SubSeq(rows, 1, Len(rows) - 1)), rows[Len(rows)])

RECURSIVE FirstSeen(_, _)
\* the distinct keys of a key column, in order of first appearance
FirstSeen(ks, seen) ==
    IF ks = <<>> THEN seen
    ELSE IF \E j \in 1..Len(seen) : seen[j] = ks[1]
         THEN FirstSeen(Tail(ks), seen)
         ELSE FirstSeen(Tail(ks), Append(seen, ks[1]))

\* value_counts(sort=False) on the unique_id level: each distinct key, in
\* order of first appearance, with the number of rows that carry it
ValueCounts(rows) ==
    LET ks == [k \in 1..Len(rows) |-> rows[k].unique_id]
        idx == FirstSeen(ks, <<>>)
    IN  [index |-> idx,
         values |-> [g \in 1..Len(idx) |->
                        Cardinality({k \in 1..Len(rows) : ks[k] = idx[g]})]]

---------------------------------------------------------------------------
(* TimeSeriesDataset *)

\* TimeSeriesDataset.__init__: the attributes of the constructed object
TimeSeriesDataset(temporal, temporal_cols, indptr, max_size, static, static_cols, sorted) ==
    [temporal      |-> ToFloatArray(temporal),
     temporal_cols |-> temporal_cols \o <<"available_mask">>,
     static        |-> IF static # None THEN ToFloatArray(static) ELSE static,
     static_cols   |-> static_cols,
     indptr        |-> indptr,
     n_groups      |-> Len(indptr) - 1,
     max_size      |-> max_size,
     updated       |-> FALSE,
     sorted        |-> sorted]

\* TimeSeriesDataset.from_df: (dataset, indices, dates, df.index)
from_df(df, static_df, sort_df) ==
    LET resort == ~IsMonotonicIncreasing(df.rows) /\ sort_df
        rows == IF resort THEN SortRows(df.rows) ELSE df.rows
        srows == IF resort /\ static_df # NoDf
                 THEN SortStatic(static_df.rows) ELSE static_df.rows
        temporal == [k \in 1..Len(rows) |-> rows[k].vals]
        indices_sizes == ValueCounts(rows)
        sizes == indices_sizes.values
        max_size == MaxSeq(sizes)
        cum_sizes == CumSum(sizes)
        dates == [g \in 1..Len(cum_sizes) |-> PyAt(rows, cum_sizes[g] - 1).ds]
        indptr == <<0>> \o cum_sizes
        static == IF static_df # NoDf
                  THEN [k \in 1..Len(srows) |-> srows[k].vals] ELSE None
        static_cols == IF static_df # NoDf THEN static_df.columns ELSE None
    IN  [dataset |-> TimeSeriesDataset(temporal, df.columns, indptr, max_size,
                                       static, static_cols, sort_df),
         indices |-> indices_sizes.index,
         dates   |-> dates,
         index   |-> [k \in 1..Len(rows) |->
                        [unique_id |-> rows[k].unique_id, ds |-> rows[k].ds]]]

\* an index argument: Python distinguishes int from every other type
IntIdx(k) == [type |-> "int", val |-> k]

\* a raised exception, as the outcome of a call
Raised(e) == [exc |-> e]

\* padded_window with the rows written to the first len(ts) columns, as the
\* slice :len(ts) would: the padding falls on the right
padded_window_left_aligned(ts, C, W) ==
    LET L == Len(ts)
    IN  [c \in 1..C |->
            [j \in 1..W |->
                IF j > L THEN 0
                ELSE IF c = C THEN 1
                ELSE ts[j][c]]]

\* lines 99-105: a zero window of C channels by W columns, then ts
\* (channel-major) and the mask value 1 assigned to the columns of the slice
\* -len(ts): , which are columns lo .. W-1 for lo the slice's lower bound
padded_window(ts, C, W) ==
    LET L == Len(ts)
        lo == SliceBound(W, 0 - L)
    IN  [c \in 1..C |->
            [j \in 1..W |->
                IF j <= lo THEN 0
                ELSE IF c = C THEN 1
                ELSE ts[IF L = 1 THEN 1 ELSE j - lo][c]]]

\* the slice assignment of line 102 needs ts to fill the target columns, or
\* to be a single column that is broadcast over them
AssignFits(ts, W) ==
    Len(ts) = W - SliceBound(W, 0 - Len(ts)) \/ Len(ts) = 1

\* TimeSeriesDataset.__getitem__
getitem(self, idx) ==
    IF idx.type # "int" THEN Raised("ValueError")
    ELSE
    LET k == idx.val
        n == Len(self.indptr)
    IN  IF ~InBounds(n, k) \/ ~InBounds(n, k + 1) THEN Raised("IndexError")
        ELSE
        LET ts == PySlice(self.temporal, PyAt(self.indptr, k), PyAt(self.indptr, k + 1))
        IN  IF ~AssignFits(ts, self.max_size) THEN Raised("RuntimeError")
            ELSE IF self.static # None /\ ~InBounds(Len(self.static), k)
                 THEN Raised("IndexError")
            ELSE
            [exc |-> "none",
             temporal |-> padded_window(ts, Len(self.temporal_cols), self.max_size),
             temporal_cols |-> self.temporal_cols,
             static |-> IF self.static = None THEN None ELSE PyAt(self.static, k),
             static_cols |-> self.static_cols]

\* TimeSeriesDataset.__len__
len(self) == self.n_groups

\* np.allclose(a, b) on two 2-D arrays of equal shape, with numpy's default
\* tolerances: |a - b| <= 1e-8 + 1e-5 * |b|, never true of a NaN
AllClose(a, b) ==
    /\ Len(a) = Len(b)
    /\ \A r \in 1..Len(a) :
          /\ Len(a[r]) = Len(b[r])
          /\ \A c \in 1..Len(a[r]) :
                /\ a[r][c] # NaN /\ b[r][c] # NaN
                /\ 100000 * Abs(a[r][c] - b[r][c]) <= Abs(b[r][c])

\* TimeSeriesDataset.__eq__
eq(self, other) ==
    IF ~HasAttr(other, "data") \/ ~HasAttr(other, "indptr")
    THEN [exc |-> "none", value |-> FALSE]
    ELSE IF ~HasAttr(self, "data") THEN Raised("AttributeError")
    ELSE [exc |-> "none",
          value |-> AllClose(self.data, other.data) /\ self.indptr = other.indptr]

---------------------------------------------------------------------------
(* TimeSeriesLoader._collate_fn *)

\* torch.stack(batch, 0, out=out) needs tensors of one shape
SameShape(batch) ==
    \A b \in 1..Len(batch) :
        /\ Len(batch[b]) = Len(batch[1])
        /\ \A r \in 1..Len(batch[b]) : Len(batch[b][r]) = Len(batch[1][r])

\* lines 48-50: the shared-memory destination a background worker allocates,
\* len(batch) slots of the first element's shape
SharedOut(batch) == [b \in 1..Len(batch) |-> [r \in 1..Len(batch[1]) |->
                        [c \in 1..Len(batch[1][r]) |-> 0]]]

\* stack with the batch written back to front
stack_reversed(batch, out) ==
    [b \in 1..Len(batch) |-> batch[Len(batch) + 1 - b]]

\* torch.stack(batch, 0, out=out): slot b of the result is batch[b]; with a
\* destination given, the slots are written into it
stack(batch, out) ==
    IF out = None THEN [b \in 1..Len(batch) |-> batch[b]]
    ELSE [b \in 1..Len(out) |-> batch[b]]

\* _collate_fn on a batch of tensors (lines 43-51)
collate_tensors(batch, in_worker) ==
    stack(batch, IF in_worker THEN SharedOut(batch) ELSE None)

\* _collate_fn: elem_kind is type(batch[0]); static rows are 1-D tensors,
\* stacked as one-row arrays
collate_fn(elem_kind, batch, in_worker) ==
    IF elem_kind = "Tensor"
    THEN IF SameShape(batch)
         THEN [exc |-> "none", keys |-> {"tensor"},
               tensor |-> collate_tensors(batch, in_worker)]
         ELSE Raised("RuntimeError")
    ELSE IF elem_kind = "Mapping"
    THEN LET temporals == [b \in 1..Len(batch) |-> batch[b].temporal]
             statics == [b \in 1..Len(batch) |-> <<batch[b].static>>]
         IN  IF ~SameShape(temporals) THEN Raised("RuntimeError")
             ELSE IF batch[1].static = None
             THEN [exc |-> "none", keys |-> {"temporal", "temporal_cols"},
                   temporal |-> collate_tensors(temporals, in_worker),
                   temporal_cols |-> batch[1].temporal_cols]
             ELSE IF ~SameShape(statics) THEN Raised("RuntimeError")
             ELSE [exc |-> "none",
                   keys |-> {"static", "static_cols", "temporal", "temporal_cols"},
                   static |-> [b \in 1..Len(batch) |->
                                  collate_tensors(statics, in_worker)[b][1]],
                   static_cols |-> batch[1].static_cols,
                   temporal |-> collate_tensors(temporals, in_worker),
                   temporal_cols |-> batch[1].temporal_cols]
    ELSE Raised("TypeError")

---------------------------------------------------------------------------
(* The caller's inputs *)

\* the feature columns of the caller's tables
Cols == <<"y", "x">>

\* a known covariate: the second feature column, fixed by key and timestamp
Exog(k, t) == 10 * t + KeyRank(k)

TableRows == {[unique_id |-> k, ds |-> t, vals |-> <<y, Exog(k, t)>>] :
                 k \in Keys, t \in 1..MaxStamp, y \in Vals}

\* a series has one row per timestamp
UniqueIndex(rows) ==
    \A a, b \in 1..Len(rows) :
        (rows[a].unique_id = rows[b].unique_id /\ rows[a].ds = rows[b].ds) => a = b

\* the non-empty tables of at most MaxRows rows
Tables ==
    {[columns |-> Cols, rows |-> t] :
        t \in {u \in UNION {[1..n -> TableRows] : n \in 1..MaxRows} : UniqueIndex(u)}}

\* the static table that goes with a table: one row per group
StaticFor(df) ==
    LET ks == ValueCounts(df.rows).index
    IN  [columns |-> <<"s">>,
         rows |-> [g \in 1..Len(ks) |->
                      [unique_id |-> ks[g], vals |-> <<100 + KeyRank(ks[g])>>]]]

\* index arguments of __getitem__: ints around the valid range, and values
\* of other types
IdxArgs ==
    {IntIdx(k) : k \in (0 - (Cardinality(Keys) + 2))..(Cardinality(Keys) + 1)}
    \cup {[type |-> "numpy.int64", val |-> 0], [type |-> "float", val |-> 0]}

\* the offset arrays of n rows in g groups
Offsets(n, g) ==
    {<<0>> \o o \o <<n>> :
        o \in {p \in [1..(g - 1) -> 0..n] :
                  \A a \in 1..(g - 2) : p[a] <= p[a + 1]}}

\* the stores a caller constructs directly: n >= 1 rows, offsets that partition
\* them, and a window width of the caller's choice
DirectStores ==
    UNION {
        {TimeSeriesDataset([k \in 1..n |-> <<k, 10 + k>>], Cols, o, w, None, None, FALSE) :
            o \in UNION {Offsets(n, g) : g \in 1..Cardinality(Keys)},
            w \in 1..(MaxRows + 1)} :
        n \in 1..MaxRows}

IdleFrame ==
    /\ pc = "idle"
    /\ dataset = store
    /\ future_df = NoDf
    /\ futr = NoDf
    /\ new_temporal = <<>>
    /\ new_indptr = <<>>
    /\ new_max_size = 0
    /\ acum = 0
    /\ i = 0
    /\ updated_dataset = None
    /\ pre = store

\* the store is built by from_df from one of the tables
InitFromDf(tables) ==
    \E df \in tables, sort_df \in BOOLEAN, with_static \in BOOLEAN :
        LET r == from_df(df, IF with_static THEN StaticFor(df) ELSE NoDf, sort_df)
        IN  /\ store = r.dataset
            /\ origin = "from_df"
            /\ src_df = df
            /\ indices = r.indices
            /\ ret = [op |-> "none"]
            /\ IdleFrame

\* the store is constructed directly
InitDirect ==
    \E s \in DirectStores :
        /\ store = s
        /\ origin = "init"
        /\ src_df = NoDf
        /\ indices = <<>>
        /\ ret = [op |-> "none"]
        /\ IdleFrame

Init == InitFromDf(Tables) \/ InitDirect

---------------------------------------------------------------------------
(* Reads *)

\* Calls are made one at a time: ret holds the outcome of the call that
\* returned last, until the caller lets go of it.
Discard ==
    /\ ret.op # "none"
    /\ ret' = [op |-> "none"]
    /\ UNCHANGED <<store, origin, src_df, indices, mergeVars>>

\* store[idx]
GetItem ==
    \E idx \in IdxArgs :
        /\ ret.op = "none"
        /\ ret' = [op |-> "getitem", idx |-> idx] @@ getitem(store, idx)
        /\ UNCHANGED <<store, origin, src_df, indices, mergeVars>>

\* the batches a sampler without replacement draws from n records: up to
\* MaxBatch distinct indices, in any order
Batches(n) ==
    {s \in UNION {[1..b -> 0..(n - 1)] : b \in 1..MaxBatch} :
        \A a, b \in 1..Len(s) : s[a] = s[b] => a = b}

\* one batch of a TimeSeriesLoader over store: the loader fetches store[k]
\* for each index of the batch and hands the list to _collate_fn
Collate ==
    \E idxs \in Batches(store.n_groups), in_worker \in BOOLEAN :
        LET batch == [b \in 1..Len(idxs) |-> getitem(store, IntIdx(idxs[b]))]
            failed == {b \in 1..Len(idxs) : batch[b].exc # "none"}
        IN  /\ ret.op = "none"
            /\ ret' = IF failed # {}
                      THEN [op |-> "collate", idxs |-> idxs, in_worker |-> in_worker,
                            exc |-> batch[CHOOSE b \in failed : \A c \in failed : b <= c].exc]
                      ELSE [op |-> "collate", idxs |-> idxs, in_worker |-> in_worker,
                            batch |-> batch]
                           @@ collate_fn("Mapping", batch, in_worker)
            /\ UNCHANGED <<store, origin, src_df, indices, mergeVars>>

\* _collate_fn called on a list that holds neither tensors nor mappings
CollateOther ==
    /\ ret.op = "none"
    /\ ret' = [op |-> "collate_other"] @@ collate_fn("int", <<0>>, FALSE)
    /\ UNCHANGED <<store, origin, src_df, indices, mergeVars>>

\* store == other, for other the store itself, a store built again from the
\* same inputs, or an object that does carry data and indptr attributes
Eq ==
    \E other \in {"self", "rebuilt", "foreign"} :
        LET again == IF origin = "from_df"
                     THEN from_df(src_df,
                                  IF store.static # None THEN StaticFor(src_df) ELSE NoDf,
                                  store.sorted).dataset
                     ELSE TimeSeriesDataset(store.temporal,
                                            SubSeq(store.temporal_cols, 1,
                                                   Len(store.temporal_cols) - 1),
                                            store.indptr, store.max_size, store.static,
                                            store.static_cols, store.sorted)
            obj == IF other = "self" THEN store
                   ELSE IF other = "rebuilt" THEN again
                   ELSE [data |-> store.temporal, indptr |-> store.indptr]
        IN  /\ ret.op = "none"
            /\ ret' = [op |-> "eq", other |-> other] @@ eq(store, obj)
            /\ UNCHANGED <<store, origin, src_df, indices, mergeVars>>

Next == GetItem \/ Collate \/ CollateOther \/ Eq \/ Discard

Spec == Init /\ [][Next]_vars

---------------------------------------------------------------------------
(* TimeSeriesDataset.update_dataset *)

Range(s) == {s[k] : k \in 1..Len(s)}

\* the position of column c among cols
ColIndex(cols, c) == CHOOSE j \in 1..Len(cols) : cols[j] = c

\* lines 135-137: every channel of the store that the future table lacks is
\* added to it, in place, as a column of None cells (not-a-number once the
\* table is converted to floats)
add_missing_cols(df, temporal_cols) ==
    LET missing == SelectSeq(temporal_cols, LAMBDA c : c \notin Range(df.columns))
    IN  [columns |-> df.columns \o missing,
         rows |-> [k \in 1..Len(df.rows) |->
                     [df.rows[k] EXCEPT !.vals = @ \o [m \in 1..Len(missing) |-> NaN]]]]

\* line 140: future_df[['unique_id', 'ds'] + temporal_cols.tolist()]
select_cols(df, cols) ==
    [columns |-> cols,
     rows |-> [k \in 1..Len(df.rows) |->
                 [df.rows[k] EXCEPT !.vals =
                     [j \in 1..Len(cols) |-> df.rows[k].vals[ColIndex(df.columns, cols[j])]]]]]

\* dataset.temporal.shape[1]
col_count(d) == IF Len(d.temporal) > 0 THEN Len(d.temporal[1])
                ELSE Len(d.temporal_cols) - 1

\* dest[a:b, :] = src for b - a = len(src): rows a .. b-1 of dest are replaced
SliceAssign(dest, a, b, src) ==
    [k \in 1..Len(dest) |-> IF a < k /\ k <= b THEN src[k - a] ELSE dest[k]]

\* loop_body with the future rows copied ahead of the store's rows
loop_body_future_first(d, f, nt, ni, nm, ac, k) ==
    LET series_length == PyAt(d.indptr, k + 1) - PyAt(d.indptr, k)
        futr_length == PyAt(f.indptr, k + 1) - PyAt(f.indptr, k)
        new_length == series_length + futr_length
        nt1 == SliceAssign(nt, ac, ac + futr_length,
                           PySlice(f.temporal, PyAt(f.indptr, k), PyAt(f.indptr, k + 1)))
        nt2 == SliceAssign(nt1, ac + futr_length, ac + new_length,
                           PySlice(d.temporal, PyAt(d.indptr, k), PyAt(d.indptr, k + 1)))
    IN  [dataset      |-> d,
         new_temporal |-> nt2,
         acum         |-> ac + new_length,
         new_indptr   |-> Append(ni, ac + new_length),
         new_max_size |-> IF new_length > nm THEN new_length ELSE nm]

\* loop_body extending the store it was given: the future rows of the group
\* are also appended to dataset.temporal and dataset.max_size follows
loop_body_in_place(d, f, nt, ni, nm, ac, k) ==
    LET series_length == PyAt(d.indptr, k + 1) - PyAt(d.indptr, k)
        new_length == series_length + PyAt(f.indptr, k + 1) - PyAt(f.indptr, k)
        frows == PySlice(f.temporal, PyAt(f.indptr, k), PyAt(f.indptr, k + 1))
        nt1 == SliceAssign(nt, ac, ac + series_length,
                           PySlice(d.temporal, PyAt(d.indptr, k), PyAt(d.indptr, k + 1)))
        nt2 == SliceAssign(nt1, ac + series_length, ac + new_length, frows)
    IN  [dataset      |-> [d EXCEPT !.temporal = @ \o frows,
                                    !.max_size = Max2(@, new_length)],
         new_temporal |-> nt2,
         acum         |-> ac + new_length,
         new_indptr   |-> Append(ni, ac + new_length),
         new_max_size |-> IF new_length > nm THEN new_length ELSE nm]

\* loop_body keeping the length of the group at hand as new_max_size,
\* whether or not it is the longest so far
loop_body_last_length(d, f, nt, ni, nm, ac, k) ==
    LET series_length == PyAt(d.indptr, k + 1) - PyAt(d.indptr, k)
        new_length == series_length + PyAt(f.indptr, k + 1) - PyAt(f.indptr, k)
        nt1 == SliceAssign(nt, ac, ac + series_length,
                           PySlice(d.temporal, PyAt(d.indptr, k), PyAt(d.indptr, k + 1)))
        nt2 == SliceAssign(nt1, ac + series_length, ac + new_length,
                           PySlice(f.temporal, PyAt(f.indptr, k), PyAt(f.indptr, k + 1)))
    IN  [dataset      |-> d,
         new_temporal |-> nt2,
         acum         |-> ac + new_length,
         new_indptr   |-> Append(ni, ac + new_length),
         new_max_size |-> new_length]

\* one pass of the loop of lines 152-162, for group k (0-based), on the
\* objects and locals it touches; the pass reads dataset and futr_dataset and
\* writes only the locals
loop_body(d, f, nt, ni, nm, ac, k) ==
    LET series_length == PyAt(d.indptr, k + 1) - PyAt(d.indptr, k)
        new_length == series_length + PyAt(f.indptr, k + 1) - PyAt(f.indptr, k)
        nt1 == SliceAssign(nt, ac, ac + series_length,
                           PySlice(d.temporal, PyAt(d.indptr, k), PyAt(d.indptr, k + 1)))
        nt2 == SliceAssign(nt1, ac + series_length, ac + new_length,
                           PySlice(f.temporal, PyAt(f.indptr, k), PyAt(f.indptr, k + 1)))
    IN  [dataset      |-> d,
         new_temporal |-> nt2,
         acum         |-> ac + new_length,
         new_indptr   |-> Append(ni, ac + new_length),
         new_max_size |-> IF new_length > nm THEN new_length ELSE nm]

\* the future tables: up to MaxFutrRows rows later than every row of the
\* store, with the store's channels in either order or the covariate missing
FutrTables ==
    UNION {
        {[columns |-> cols,
          rows |-> [k \in 1..Len(ids) |->
                      [unique_id |-> ids[k], ds |-> 10 + k,
                       vals |-> [j \in 1..Len(cols) |->
                                   IF cols[j] = "y" THEN 20 + k
                                   ELSE Exog(ids[k], 10 + k)]]]] :
            ids \in UNION {[1..n -> Keys] : n \in 1..MaxFutrRows}} :
        cols \in {<<"y", "x">>, <<"x", "y">>, <<"y">>}}

\* the tables the merged stores are built from: row k at timestamp k
MergeTables ==
    {[columns |-> Cols,
      rows |-> [k \in 1..Len(ids) |->
                  [unique_id |-> ids[k], ds |-> k, vals |-> <<k, Exog(ids[k], k)>>]]] :
        ids \in UNION {[1..n -> Keys] : n \in 1..MaxRows}}

\* update_dataset(store, F) is entered (lines 133-151)
UpdateBegin ==
    \E F \in FutrTables :
        LET d == store
            temporal_cols == SubSeq(d.temporal_cols, 1, Len(d.temporal_cols) - 1)
            filled == add_missing_cols(F, temporal_cols)
            local_df == select_cols(filled, temporal_cols)
        IN  /\ pc = "idle"
            /\ pc' = "loop"
            /\ dataset' = d
            /\ pre' = d
            /\ future_df' = filled
            /\ futr' = from_df(local_df, NoDf, d.sorted)
            /\ new_temporal' = Zeros(Len(d.temporal) + Len(local_df.rows), col_count(d))
            /\ new_indptr' = <<0>>
            /\ new_max_size' = 0
            /\ acum' = 0
            /\ i' = 0
            /\ ret' = [op |-> "none"]
            /\ UNCHANGED <<store, origin, src_df, indices, updated_dataset>>

\* one pass of the loop; futr_dataset.indptr[i + 1] raises IndexError when
\* the future store has no group i
UpdateStep ==
    /\ pc = "loop"
    /\ i < dataset.n_groups
    /\ IF ~InBounds(Len(futr.dataset.indptr), i + 1)
       THEN /\ pc' = "IndexError"
            /\ UNCHANGED <<dataset, new_temporal, new_indptr, new_max_size, acum, i>>
       ELSE LET r == loop_body(dataset, futr.dataset, new_temporal, new_indptr,
                               new_max_size, acum, i)
            IN  /\ dataset' = r.dataset
                /\ new_temporal' = r.new_temporal
                /\ new_indptr' = r.new_indptr
                /\ new_max_size' = r.new_max_size
                /\ acum' = r.acum
                /\ i' = i + 1
                /\ pc' = pc
    /\ UNCHANGED <<store, origin, src_df, indices, ret, future_df, futr,
                   updated_dataset, pre>>

\* lines 165-173: the loop is over, the new store is built and returned
UpdateReturn ==
    /\ pc = "loop"
    /\ i = dataset.n_groups
    /\ updated_dataset' =
          TimeSeriesDataset(new_temporal,
                            SubSeq(dataset.temporal_cols, 1, Len(dataset.temporal_cols) - 1),
                            new_indptr, new_max_size, dataset.static,
                            dataset.static_cols, dataset.sorted)
    /\ pc' = "done"
    /\ UNCHANGED <<store, origin, src_df, indices, ret, dataset, future_df, futr,
                   new_temporal, new_indptr, new_max_size, acum, i, pre>>

\* a reader of the store being merged asks for one of its windows, at any
\* point of the merge or after it
ReadDataset ==
    /\ pc # "idle"
    /\ \E k \in 0..(dataset.n_groups - 1) :
        /\ ret' = [op |-> "getitem", of |-> "dataset", idx |-> IntIdx(k)]
                  @@ getitem(dataset, IntIdx(k))
        /\ UNCHANGED <<store, origin, src_df, indices, mergeVars>>

\* a reader of the returned store asks for one of its windows
ReadUpdated ==
    /\ pc = "done"
    /\ \E k \in 0..(updated_dataset.n_groups - 1) :
        /\ ret' = [op |-> "getitem", of |-> "updated_dataset", idx |-> IntIdx(k)]
                  @@ getitem(updated_dataset, IntIdx(k))
        /\ UNCHANGED <<store, origin, src_df, indices, mergeVars>>

InitMerge == InitFromDf(MergeTables) \/ InitDirect

NextMerge == UpdateBegin \/ UpdateStep \/ UpdateReturn \/ ReadDataset \/ ReadUpdated

SpecMerge == InitMerge /\ [][NextMerge]_vars

---------------------------------------------------------------------------
(* Properties of the reads (specification Spec) *)

\* idx is an integer group index of store s
ValidIdx(s, idx) == idx.type = "int" /\ 0 <= idx.val /\ idx.val < s.n_groups

\* offset[g + 1] - offset[g] for the 0-based group g of store s
group_length(s, g) == s.indptr[g + 2] - s.indptr[g + 1]

\* all rows of a key are contiguous in the table
Grouped(rows) ==
    \A a, b, c \in 1..Len(rows) :
        (a < b /\ b < c /\ rows[a].unique_id = rows[c].unique_id)
            => rows[b].unique_id = rows[a].unique_id

\* within a key, timestamps do not decrease along the table
TimeOrdered(rows) ==
    \A a, b \in 1..Len(rows) :
        (a < b /\ rows[a].unique_id = rows[b].unique_id) => rows[a].ds <= rows[b].ds

\* the rows of the original table that carry the key of the 0-based group g
TableGroup(g) ==
    SelectSeq(src_df.rows, LAMBDA r : r.unique_id = indices[g + 1])

\* a window was asked of a store that from_df built from a grouped,
\* time-ordered table, at a valid group index
C1Case ==
    /\ origin = "from_df"
    /\ Grouped(src_df.rows) /\ TimeOrdered(src_df.rows)
    /\ ret.op = "getitem"
    /\ ValidIdx(store, ret.idx)

\* the returned window is [channel_count + 1, max_size]; its last
\* group_length columns hold the table's rows of the group, each value as
\* conv makes it, with mask 1; the columns before are 0 on every channel
WindowIs(conv(_)) ==
    LET g == ret.idx.val
        rows == TableGroup(g)
        L == Len(rows)
        W == store.max_size
        C == Len(src_df.columns)
    IN  /\ ret.exc = "none"
        /\ group_length(store, g) = L
        /\ L <= W
        /\ Len(ret.temporal) = C + 1
        /\ \A c \in 1..(C + 1) : Len(ret.temporal[c]) = W
        /\ \A j \in 1..(W - L) : \A c \in 1..(C + 1) : ret.temporal[c][j] = 0
        /\ \A j \in (W - L + 1)..W :
              /\ ret.temporal[C + 1][j] = 1
              /\ \A c \in 1..C : ret.temporal[c][j] = conv(rows[j - (W - L)].vals[c])

\* C1 as stated: for a store built by from_df from a grouped, time-ordered
\* table and a valid group index i, __getitem__(i) is a window of shape
\* [channel_count + 1, max_size] whose last group_length(i) columns hold
\* exactly the table's rows of that group, in order, with mask 1, and whose
\* first max_size - group_length(i) columns are 0 on every channel and mask.
C1_ExactRoundTrip == C1Case => WindowIs(LAMBDA v : v)

\* C1 amended: as above, but the window holds each value of the table as
\* converted to a single-precision float (the table's value itself whenever
\* that is representable in float32).
C1_Float32RoundTrip == C1Case => WindowIs(AsFloat32)

\* a padded window of a two-group store was returned
C1_Witness ==
    /\ C1Case
    /\ ret.exc = "none"
    /\ store.n_groups = 2
    /\ group_length(store, ret.idx.val) < store.max_size
    /\ ret.temporal[1][store.max_size] = 1

\* C7 as stated: __getitem__(idx) returns a window only for an integer idx
\* with 0 <= idx < n_groups; for every other argument it fails.
C7_OnlyValidIndexReturns ==
    (ret.op = "getitem" /\ ~ValidIdx(store, ret.idx)) => ret.exc # "none"

\* C8: collating B records with windows of shape [C, W] gives a temporal
\* field of shape [B, C, W] whose slot b is the b-th record's window, and
\* temporal_cols is the first record's label sequence, not stacked.
C8_CollationShape ==
    (ret.op = "collate" /\ "batch" \in DOMAIN ret) =>
        /\ ret.exc = "none"
        /\ Len(ret.temporal) = Len(ret.batch)
        /\ \A b \in 1..Len(ret.batch) :
              /\ ret.temporal[b] = ret.batch[b].temporal
              /\ Len(ret.temporal[b]) = Len(store.temporal_cols)
              /\ \A c \in 1..Len(ret.temporal[b]) :
                    Len(ret.temporal[b][c]) = store.max_size
        /\ ret.temporal_cols = ret.batch[1].temporal_cols
        /\ ret.temporal_cols = store.temporal_cols

\* two different windows were collated in a background worker
C8_Witness ==
    /\ ret.op = "collate" /\ "batch" \in DOMAIN ret
    /\ ret.in_worker
    /\ Len(ret.batch) = 2
    /\ ret.batch[1].temporal # ret.batch[2].temporal
    /\ ret.exc = "none"

\* C9 as stated: __eq__ is true exactly when the temporal arrays are
\* element-wise close and the offset arrays equal; so a store equals itself
\* and a store built from the same table.
C9_EqualToItself ==
    (ret.op = "eq" /\ ret.other \in {"self", "rebuilt"}) =>
        (ret.exc = "none" /\ ret.value = TRUE)

\* C10 as stated: for a store with max_size >= 1 and a group i of length 0,
\* __getitem__(i) does not fail and returns a window that is 0 on every
\* feature channel and on the whole availability mask.
C10_EmptyGroupWindow ==
    ( /\ ret.op = "getitem"
      /\ ValidIdx(store, ret.idx)
      /\ store.max_size >= 1
      /\ group_length(store, ret.idx.val) = 0 ) =>
        /\ ret.exc = "none"
        /\ \A c \in 1..Len(ret.temporal) :
              \A j \in 1..Len(ret.temporal[c]) : ret.temporal[c][j] = 0

---------------------------------------------------------------------------
(* Properties of the merge (specification SpecMerge) *)

\* the rows of the 0-based group g of store s
group_rows(s, g) == SubSeq(s.temporal, s.indptr[g + 1] + 1, s.indptr[g + 2])

RECURSIVE Longest(_, _)
\* the length of the longest of the groups g .. n_groups - 1 of store s
Longest(s, g) ==
    IF g >= s.n_groups THEN 0 ELSE Max2(group_length(s, g), Longest(s, g + 1))

\* C2: for every group i of the store update_dataset returns, the length is
\* len_S(i) + len_F(i) and the rows are S's rows of group i, in order,
\* followed by the future store's rows of group i, in order.
C2_MergedRows ==
    pc = "done" =>
        /\ updated_dataset.n_groups = pre.n_groups
        /\ \A g \in 0..(pre.n_groups - 1) :
              /\ group_length(updated_dataset, g) =
                    group_length(pre, g) + group_length(futr.dataset, g)
              /\ group_rows(updated_dataset, g) =
                    group_rows(pre, g) \o group_rows(futr.dataset, g)

\* a merge of two groups of different lengths, each with future rows, returned
C2_Witness ==
    /\ pc = "done"
    /\ pre.n_groups = 2
    /\ group_length(pre, 0) # group_length(pre, 1)
    /\ group_length(futr.dataset, 0) >= 1
    /\ group_length(futr.dataset, 1) >= 1

\* C3: update_dataset never mutates its input store: at every point of a
\* merge, also with readers of the store interleaved, and after it, the
\* store's temporal rows, offsets, max_size and static table are those it
\* had when the merge began, and every window a reader gets or could get
\* of it is the pre-merge window.
C3_InputUntouched ==
    pc # "idle" =>
        /\ dataset = pre
        /\ store = pre
        /\ \A g \in 0..(pre.n_groups - 1) :
              getitem(dataset, IntIdx(g)) = getitem(pre, IntIdx(g))
        /\ (ret.op = "getitem" /\ ret.of = "dataset") =>
              ret = [op |-> "getitem", of |-> "dataset", idx |-> ret.idx]
                    @@ getitem(pre, ret.idx)

\* a reader was served a window while the merge was between two groups
C3_Witness ==
    /\ pc = "loop"
    /\ i >= 1 /\ i < dataset.n_groups
    /\ ret.op = "getitem" /\ ret.of = "dataset" /\ ret.exc = "none"

\* the offset invariants of a store
OffsetInvariants(s) ==
    /\ Len(s.indptr) = s.n_groups + 1
    /\ s.indptr[1] = 0
    /\ \A g \in 1..s.n_groups : s.indptr[g] <= s.indptr[g + 1]
    /\ s.indptr[Len(s.indptr)] = Len(s.temporal)

\* C4 as stated: every store that from_df or update_dataset produces has
\* n_groups + 1 offsets, the first 0, non-decreasing, the last equal to the
\* row count of its temporal array.
C4_OffsetInvariants ==
    origin = "from_df" =>
        /\ OffsetInvariants(store)
        /\ pc # "idle" => OffsetInvariants(futr.dataset)
        /\ pc = "done" => OffsetInvariants(updated_dataset)

\* C5 as stated: for a store S whose max_size is equal to or exceeds its
\* longest group, the store update_dataset returns has max_size >= S.max_size.
C5_MaxSizeMonotone ==
    (pc = "done" /\ pre.max_size >= Longest(pre, 0)) =>
        updated_dataset.max_size >= pre.max_size

\* C5 amended: for a store S whose max_size equals the length of its longest
\* group, the store update_dataset returns has max_size >= S.max_size.
C5_MaxSizeMonotoneExact ==
    (pc = "done" /\ pre.max_size = Longest(pre, 0)) =>
        updated_dataset.max_size >= pre.max_size

\* a merge returned for a store whose window is exactly as wide as its
\* longest group, which is not its last group
C5_Witness ==
    /\ pc = "done"
    /\ pre.max_size = Longest(pre, 0)
    /\ pre.n_groups = 2
    /\ group_length(pre, 1) < group_length(pre, 0)
    /\ updated_dataset.max_size > pre.max_size

\* C6 as stated: when the future table's groups do not correspond 1:1, in
\* order, to the store's groups, update_dataset fails and returns no store.
C6_MismatchRejected ==
    (origin = "from_df" /\ pc # "idle" /\ futr.indices # indices) =>
        /\ pc # "done"
        /\ updated_dataset = None

=============================================================================
